---- MODULE Spec2Model ----
(***************************************************************************)
(* A model of examples/python-examples.py: the TaskManager,                *)
(* KanbanAutomation and ProjectAnalytics example classes, each a sequence  *)
(* of remote calls against one task board.  The board (its lists and       *)
(* cards) is the remote service's state; priority_lists and stage_lists    *)
(* are the in-memory mappings of the class instances.  Every method is one *)
(* action; calls is the log of the remote calls the latest method issued   *)
(* and result is what it returned or raised.                               *)
(*                                                                         *)
(* Strings that the code only compares are TLA+ strings; card titles,      *)
(* which the code parses, are sequences of one-character strings.          *)
(* Instants are whole days; an ISO timestamp is a record [t, aware] that   *)
(* keeps whether the text carries a UTC offset.                            *)
(***************************************************************************)
EXTENDS Integers, Sequences, FiniteSets, TLC

VARIABLES
    lists,           \* remote: the board's lists in board order, <<[id, name]>>
    cards,           \* remote: the board's cards in creation order; a card's id is its index
    priority_lists,  \* TaskManager.priority_lists: priority value -> list id
    stage_lists,     \* KanbanAutomation.stage_lists: stage name -> list id
    calls,           \* the remote calls issued by the latest method, in order
    result           \* what the latest method returned or raised

vars == <<lists, cards, priority_lists, stage_lists, calls, result>>

(***************************************************************************)
(* Bounds of the model.                                                    *)
(***************************************************************************)
MaxLists == 6           \* lists on the board of SpecInit
MaxTaskCards == 2       \* cards on the board of SpecCreate
MaxEscalateCards == 2   \* cards on the board of SpecEscalate
MaxMoveLists == 6       \* lists on the board of SpecMove
MaxMoveCards == 1       \* cards on the board of SpecMove
MaxComments == 1        \* comments on a card of SpecMove
MaxWipLists == 6        \* lists on the board of SpecWip
MaxWipCards == 4        \* cards on the board of SpecWip
MaxLimit == 1           \* the largest WIP limit
MaxBurndownCards == 2   \* cards on the board of SpecBurndown
MaxVelocityCards == 3   \* cards on the board of SpecVelocity
MaxHealthCards == 3     \* cards on the board of SpecHealth
MaxChecklist == 1    \* checklist items of a task
MaxNow == 1          \* the latest instant (in days) a method reads as "now"

None == "None"       \* Python's None
NoResult == [op |-> "none"]

(***************************************************************************)
(* Generic helpers.                                                        *)
(***************************************************************************)
Range(s) == {s[i] : i \in 1..Len(s)}

Min(S) == CHOOSE x \in S : \A y \in S : x <= y

RECURSIVE SumSeq(_)
SumSeq(s) == IF s = <<>> THEN 0 ELSE s[1] + SumSeq(Tail(s))

\* d with d[k] = v, as Python's d[k] = v on a dict
DictSet(d, k, v) == [x \in DOMAIN d \cup {k} |-> IF x = k THEN v ELSE d[x]]

EmptyDict == [x \in {} |-> 0]

(***************************************************************************)
(* class Priority(Enum), in definition order.                              *)
(***************************************************************************)
PriorityMembers == <<"critical", "high", "medium", "low">>

PriorityValues == Range(PriorityMembers)

\* f"Priority: {priority.value.capitalize()}"
PriorityListName(p) ==
    CASE p = "critical" -> "Priority: Critical"
      [] p = "high"     -> "Priority: High"
      [] p = "medium"   -> "Priority: Medium"
      [] p = "low"      -> "Priority: Low"

(***************************************************************************)
(* The remote service.  A label is a mapping, here a record that may or    *)
(* may not have a name; a label given to the service as a bare string is   *)
(* [str |-> s] until the service stores it as a label of that name.        *)
(***************************************************************************)
NewCard(listId, name, labels, due) ==
    [idList |-> listId, name |-> name, labels |-> labels, due |-> due,
     dueComplete |-> FALSE, dateLastActivity |-> <<>>, comments |-> 0]

StoredLabel(l) == IF "str" \in DOMAIN l THEN [name |-> l.str] ELSE l

StoredLabels(ls) == [i \in 1..Len(ls) |-> StoredLabel(ls[i])]

\* get_lists
GetLists == lists

\* get_cards_by_list_id: the ids of the list's cards, in the service's order
CardsByListId(cs, listId) ==
    LET InList(i) == cs[i].idList = listId
    IN  SelectSeq([i \in 1..Len(cs) |-> i], InList)

\* add_list_to_board: the board with the new list, whose id is fresh
AddListToBoard(ls, name) == Append(ls, [id |-> Len(ls) + 1, name |-> name])

\* add_card_to_list
AddCardToList(cs, listId, name, labels, due) ==
    Append(cs, NewCard(listId, name, StoredLabels(labels), due))

\* move_card
MoveCard(cs, c, listId) == [cs EXCEPT ![c].idList = listId]

\* update_card_details with labels
UpdateCardLabels(cs, c, labels) == [cs EXCEPT ![c].labels = StoredLabels(labels)]

\* add_comment
AddComment(cs, c) == [cs EXCEPT ![c].comments = @ + 1]

(***************************************************************************)
(* TaskManager                                                             *)
(***************************************************************************)
\* the loop of lines 78-81 without its break: the last list of that name
LastListId(ls, name) ==
    LET hits == {i \in 1..Len(ls) : ls[i].name = name}
    IN  ls[CHOOSE i \in hits : \A j \in hits : j <= i].id

\* the id of the first list of that name (the loop of lines 78-81)
FirstListId(ls, name) ==
    LET hits == {i \in 1..Len(ls) : ls[i].name = name}
    IN  ls[Min(hits)].id

\* one iteration of the loop over Priority; lists0 is the get_lists result
InitPriorityStep(st, lists0, p) ==
    LET list_name == PriorityListName(p)
        existing_list_names == {lists0[i].name : i \in 1..Len(lists0)}
    IN  IF list_name \notin existing_list_names
        THEN [lists |-> AddListToBoard(st.lists, list_name),
              priority_lists |-> DictSet(st.priority_lists, p, Len(st.lists) + 1),
              calls |-> Append(st.calls, [tool |-> "add_list_to_board", name |-> list_name])]
        ELSE [st EXCEPT !.priority_lists =
                  DictSet(st.priority_lists, p, FirstListId(lists0, list_name))]

RECURSIVE InitPriorityLoop(_, _, _)
InitPriorityLoop(st, lists0, ps) ==
    IF ps = <<>> THEN st
    ELSE InitPriorityLoop(InitPriorityStep(st, lists0, ps[1]), lists0, Tail(ps))

initialize_priority_lists ==
    /\ LET st == InitPriorityLoop(
                    [lists |-> lists, priority_lists |-> priority_lists,
                     calls |-> <<[tool |-> "get_lists"]>>],
                    GetLists, PriorityMembers)
       IN  /\ lists' = st.lists
           /\ priority_lists' = st.priority_lists
           /\ calls' = st.calls
           /\ result' = [op |-> "initialize_priority_lists", status |-> "returned"]
    /\ UNCHANGED <<cards, stage_lists>>

\* datetime.isoformat() of a naive datetime: the text carries no UTC offset
IsoFormat(t) == [t |-> t, aware |-> FALSE]

\* days_by_priority with the offsets of high and medium exchanged
days_by_priority_swapped(p) ==
    CASE p = "critical" -> 1
      [] p = "high"     -> 7
      [] p = "medium"   -> 3
      [] p = "low"      -> 14

\* days_by_priority (lines 87-92)
days_by_priority(p) ==
    CASE p = "critical" -> 1
      [] p = "high"     -> 3
      [] p = "medium"   -> 7
      [] p = "low"      -> 14

\* lines 86-93: an absent due date (<<>>) is replaced, a given one (<<t>>) is kept
TaskDueDate(task, now) ==
    IF task.due_date = <<>> THEN now + days_by_priority(task.priority)
    ELSE task.due_date[1]

\* task.labels or [task.priority.value]
TaskLabels(task) ==
    IF task.labels = <<>> THEN <<[str |-> task.priority]>>
    ELSE [i \in 1..Len(task.labels) |-> [str |-> task.labels[i]]]

TaskTitle == <<"t">>

\* the remote calls of create_task once the list id is known (lines 96-110)
CreateTaskCalls(task, now) ==
    <<[tool |-> "add_card_to_list", listId |-> priority_lists[task.priority],
       dueDate |-> IsoFormat(TaskDueDate(task, now)), labels |-> TaskLabels(task)]>>
    \o [i \in 1..task.checklist_items |-> [tool |-> "add_checklist_item", item |-> i]]

create_task(task, now) ==
    /\ IF task.priority \notin DOMAIN priority_lists
       THEN /\ calls' = <<>>
            /\ result' = [op |-> "create_task", task |-> task, now |-> now,
                          status |-> "KeyError"]
            /\ UNCHANGED cards
       ELSE /\ calls' = CreateTaskCalls(task, now)
            /\ cards' = AddCardToList(cards, priority_lists[task.priority], TaskTitle,
                                      TaskLabels(task), <<IsoFormat(TaskDueDate(task, now))>>)
            /\ result' = [op |-> "create_task", task |-> task, now |-> now,
                          status |-> "returned"]
    /\ UNCHANGED <<lists, priority_lists, stage_lists>>

\* label.get('name', label): a label without a name yields the label itself,
\* which is no string
LabelKey(label) == IF "name" \in DOMAIN label THEN label.name ELSE "<label>"

\* lines 139-145 without the break: the last label that Priority(...) accepts
InferPriorityLast(labels) ==
    LET hits == {i \in 1..Len(labels) : LabelKey(labels[i]) \in PriorityValues}
    IN  IF hits = {} THEN None
        ELSE LabelKey(labels[CHOOSE i \in hits : \A j \in hits : j <= i])

\* lines 139-145 with current_priority starting at Priority.LOW instead of None
InferPriorityDefaultLow(labels) ==
    LET hits == {i \in 1..Len(labels) : LabelKey(labels[i]) \in PriorityValues}
    IN  IF hits = {} THEN "low" ELSE LabelKey(labels[Min(hits)])

\* lines 139-145: the first label that Priority(...) accepts, or None
InferPriority(labels) ==
    LET hits == {i \in 1..Len(labels) : LabelKey(labels[i]) \in PriorityValues}
    IN  IF hits = {} THEN None ELSE LabelKey(labels[Min(hits)])

\* line 152
priority_order == <<"low", "medium", "high", "critical">>

\* priority_order.index(p), for p in priority_order
PriorityIndex(p) == CHOOSE i \in 1..Len(priority_order) : priority_order[i] = p

\* lines 163-165
EscalatedLabels(labels, current_priority, new_priority) ==
    LET Keep(l) == LabelKey(l) # current_priority
    IN  Append(SelectSeq(labels, Keep), [str |-> new_priority])

\* lines 131-182 as a transaction: a failed remote mutation undoes the ones
\* before it
EscalateOutcomeRolledBack(cs, pl, card_id, failAt) ==
    LET card == cs[card_id]
        get == <<[tool |-> "get_card", cardId |-> card_id]>>
        current_priority == InferPriority(card.labels)
        Out(status, cs2, cl) ==
            [cards |-> cs2, calls |-> cl,
             result |-> [op |-> "escalate_task", card_id |-> card_id,
                         current_priority |-> current_priority, status |-> status]]
    IN  IF current_priority = "critical" THEN Out("returned", cs, get)
        ELSE IF current_priority \notin Range(priority_order) THEN Out("ValueError", cs, get)
        ELSE
        LET new_priority == priority_order[PriorityIndex(current_priority) + 1]
        IN  IF new_priority \notin DOMAIN pl THEN Out("KeyError", cs, get)
            ELSE
            LET move == [tool |-> "move_card", cardId |-> card_id, listId |-> pl[new_priority]]
                new_labels == EscalatedLabels(card.labels, current_priority, new_priority)
                update == [tool |-> "update_card_details", cardId |-> card_id,
                           labels |-> new_labels]
                comment == [tool |-> "add_comment", cardId |-> card_id]
                cs1 == MoveCard(cs, card_id, pl[new_priority])
                cs2 == UpdateCardLabels(cs1, card_id, new_labels)
                cs3 == AddComment(cs2, card_id)
            IN  CASE failAt = 1 -> Out("RemoteError", cs, get \o <<move>>)
                  [] failAt = 2 -> Out("RemoteError", cs, get \o <<move, update>>)
                  [] failAt = 3 -> Out("RemoteError", cs, get \o <<move, update, comment>>)
                  [] OTHER -> Out("returned", cs3, get \o <<move, update, comment>>)

\* lines 131-182.  failAt names the remote mutation that fails (1: move_card,
\* 2: update_card_details, 3: add_comment; 0: none): the error propagates.
EscalateOutcome(cs, pl, card_id, failAt) ==
    LET card == cs[card_id]
        get == <<[tool |-> "get_card", cardId |-> card_id]>>
        current_priority == InferPriority(card.labels)
        Out(status, cs2, cl) ==
            [cards |-> cs2, calls |-> cl,
             result |-> [op |-> "escalate_task", card_id |-> card_id,
                         current_priority |-> current_priority, status |-> status]]
    IN  IF current_priority = "critical" THEN Out("returned", cs, get)
        ELSE IF current_priority \notin Range(priority_order) THEN Out("ValueError", cs, get)
        ELSE
        LET new_priority == priority_order[PriorityIndex(current_priority) + 1]
        IN  IF new_priority \notin DOMAIN pl THEN Out("KeyError", cs, get)
            ELSE
            LET move == [tool |-> "move_card", cardId |-> card_id, listId |-> pl[new_priority]]
                new_labels == EscalatedLabels(card.labels, current_priority, new_priority)
                update == [tool |-> "update_card_details", cardId |-> card_id,
                           labels |-> new_labels]
                comment == [tool |-> "add_comment", cardId |-> card_id]
                cs1 == MoveCard(cs, card_id, pl[new_priority])
                cs2 == UpdateCardLabels(cs1, card_id, new_labels)
                cs3 == AddComment(cs2, card_id)
            IN  CASE failAt = 1 -> Out("RemoteError", cs, get \o <<move>>)
                  [] failAt = 2 -> Out("RemoteError", cs1, get \o <<move, update>>)
                  [] failAt = 3 -> Out("RemoteError", cs2, get \o <<move, update, comment>>)
                  [] OTHER -> Out("returned", cs3, get \o <<move, update, comment>>)

escalate_task(card_id, failAt) ==
    /\ card_id \in 1..Len(cards)
    /\ \E out \in {EscalateOutcome(cards, priority_lists, card_id, failAt)} :
           /\ cards' = out.cards
           /\ calls' = out.calls
           /\ result' = out.result
    /\ UNCHANGED <<lists, priority_lists, stage_lists>>

(***************************************************************************)
(* Other users of the board: a list or a card appears on it.               *)
(***************************************************************************)
RemoteResult == [op |-> "remote"]

RemoteAddList(name) ==
    /\ lists' = AddListToBoard(lists, name)
    /\ calls' = <<>>
    /\ result' = RemoteResult
    /\ UNCHANGED <<cards, priority_lists, stage_lists>>

RemoteAddCard(card) ==
    /\ card.idList \in {lists[i].id : i \in 1..Len(lists)}
    /\ cards' = Append(cards, card)
    /\ calls' = <<>>
    /\ result' = RemoteResult
    /\ UNCHANGED <<lists, priority_lists, stage_lists>>

Init ==
    /\ lists = <<>>
    /\ cards = <<>>
    /\ priority_lists = EmptyDict
    /\ stage_lists = EmptyDict
    /\ calls = <<>>
    /\ result = NoResult

(***************************************************************************)
(* TaskManager.initialize_priority_lists on a board that other users add   *)
(* lists to, some of them named like priority lists.                       *)
(***************************************************************************)
ForeignListNames == {"Priority: High", "Priority: Low", "Ideas"}

\* the lists a board holds once every priority has its list
ListsWhenInitialized(ls) == Len(ls) + Cardinality({p \in PriorityValues :
                               \A i \in 1..Len(ls) : ls[i].name # PriorityListName(p)})

NextInit ==
    \/ initialize_priority_lists
    \/ \E name \in ForeignListNames :
          /\ ListsWhenInitialized(AddListToBoard(lists, name)) <= MaxLists
          /\ RemoteAddList(name)

SpecInit == Init /\ [][NextInit]_vars

(***************************************************************************)
(* TaskManager.create_task                                                 *)
(***************************************************************************)
Tasks ==
    [priority : PriorityValues, due_date : {<<>>, <<5>>},
     labels : {<<>>, <<"bug">>}, checklist_items : 0..MaxChecklist]

NextCreate ==
    \/ initialize_priority_lists
    \/ \E task \in Tasks, now \in 0..MaxNow :
          /\ Len(cards) < MaxTaskCards
          /\ create_task(task, now)

SpecCreate == Init /\ [][NextCreate]_vars

(***************************************************************************)
(* TaskManager.escalate_task on cards that carry any labels                *)
(***************************************************************************)
\* label lists of the cards other users create
LabelSamples ==
    { <<>>,
      <<[name |-> "critical"]>>,
      <<[name |-> "bug"], [name |-> "high"]>>,
      <<[color |-> "red"], [name |-> "low"]>>,
      <<[name |-> "medium"], [name |-> "critical"]>>,
      <<[name |-> "bug"], [name |-> "critical"], [name |-> "low"]>>,
      <<[name |-> "bug"]>> }

NextEscalate ==
    \/ initialize_priority_lists
    \/ \E c \in 1..Len(cards), failAt \in 0..3 : escalate_task(c, failAt)
    \/ \E ls \in LabelSamples :
          /\ Len(cards) < MaxEscalateCards
          /\ lists # <<>>
          /\ RemoteAddCard(NewCard(lists[1].id, TaskTitle, ls, <<>>))

SpecEscalate == Init /\ [][NextEscalate]_vars

(***************************************************************************)
(* KanbanAutomation                                                        *)
(***************************************************************************)
\* self.workflow_stages (lines 191-198)
workflow_stages == <<"Backlog", "To Do", "In Progress", "Review", "Testing", "Done">>

\* lines 201-207.  failAt names the add_list_to_board call that fails (0: none);
\* the stages before it are recorded and the error propagates.
RECURSIVE SetupLoop(_, _, _)
SetupLoop(st, k, failAt) ==
    IF k > Len(workflow_stages) THEN [st EXCEPT !.status = "returned"]
    ELSE LET stage == workflow_stages[k]
             cl == Append(st.calls, [tool |-> "add_list_to_board", name |-> stage])
         IN  IF k = failAt THEN [st EXCEPT !.calls = cl, !.status = "RemoteError"]
             ELSE SetupLoop([lists |-> AddListToBoard(st.lists, stage),
                             stage_lists |-> DictSet(st.stage_lists, stage, Len(st.lists) + 1),
                             calls |-> cl, status |-> st.status],
                            k + 1, failAt)

setup_kanban_board(failAt) ==
    /\ LET st == SetupLoop([lists |-> lists, stage_lists |-> stage_lists,
                            calls |-> <<>>, status |-> "running"], 1, failAt)
       IN  /\ lists' = st.lists
           /\ stage_lists' = st.stage_lists
           /\ calls' = st.calls
           /\ result' = [op |-> "setup_kanban_board", status |-> st.status]
    /\ UNCHANGED <<cards, priority_lists>>

\* "if comment:" with "is not None" in its place
CommentNotNone(comment) == comment # None

\* "if comment:" (line 221): None and the empty string are false
CommentGiven(comment) == comment \notin {None, ""}

\* lines 209-225
MoveOutcome(cs, sl, card_id, stage, comment) ==
    LET Out(status, cs2, cl) ==
            [cards |-> cs2, calls |-> cl,
             result |-> [op |-> "move_card_to_stage", card_id |-> card_id, stage |-> stage,
                         comment |-> comment, status |-> status]]
    IN  IF stage \notin DOMAIN sl THEN Out("ValueError", cs, <<>>)
        ELSE
        LET move == [tool |-> "move_card", cardId |-> card_id, listId |-> sl[stage]]
            cs1 == MoveCard(cs, card_id, sl[stage])
        IN  IF CommentGiven(comment)
            THEN Out("returned", AddComment(cs1, card_id),
                     <<move, [tool |-> "add_comment", cardId |-> card_id]>>)
            ELSE Out("returned", cs1, <<move>>)

move_card_to_stage(card_id, stage, comment) ==
    /\ card_id \in 1..Len(cards)
    /\ LET out == MoveOutcome(cards, stage_lists, card_id, stage, comment)
       IN  /\ cards' = out.cards
           /\ calls' = out.calls
           /\ result' = out.result
    /\ UNCHANGED <<lists, priority_lists, stage_lists>>

WarningTitle == <<"W", "I", "P">>

\* "len(cards) > limit" as "len(cards) >= limit"
WipReached(n, limit) == n >= limit

\* line 272
WipExceeded(n, limit) == n > limit

\* the loop body with line 275 naming the Backlog list: the warning card is
\* created away from the list that exceeded its limit
WipStepIntoBacklog(st, sl, entry) ==
    LET stage == entry[1]
        limit == entry[2]
    IN  IF stage \notin DOMAIN sl THEN st
        ELSE
        LET found == CardsByListId(st.cards, sl[stage])
            get == [tool |-> "get_cards_by_list_id", listId |-> sl[stage]]
            warn == [tool |-> "add_card_to_list", listId |-> sl["Backlog"]]
        IN  IF WipExceeded(Len(found), limit)
            THEN [cards |-> AddCardToList(st.cards, sl["Backlog"], WarningTitle,
                                          <<[str |-> "warning"], [str |-> "wip-violation"]>>,
                                          <<>>),
                  calls |-> st.calls \o <<get, warn>>]
            ELSE [st EXCEPT !.calls = Append(st.calls, get)]

\* one iteration of the loop of lines 263-288; entry is <<stage, limit>>
WipStep(st, sl, entry) ==
    LET stage == entry[1]
        limit == entry[2]
    IN  IF stage \notin DOMAIN sl THEN st
        ELSE
        LET found == CardsByListId(st.cards, sl[stage])
            get == [tool |-> "get_cards_by_list_id", listId |-> sl[stage]]
            warn == [tool |-> "add_card_to_list", listId |-> sl[stage]]
        IN  IF WipExceeded(Len(found), limit)
            THEN [cards |-> AddCardToList(st.cards, sl[stage], WarningTitle,
                                          <<[str |-> "warning"], [str |-> "wip-violation"]>>,
                                          <<>>),
                  calls |-> st.calls \o <<get, warn>>]
            ELSE [st EXCEPT !.calls = Append(st.calls, get)]

RECURSIVE WipLoop(_, _, _)
WipLoop(st, sl, limits) ==
    IF limits = <<>> THEN st
    ELSE WipLoop(WipStep(st, sl, limits[1]), sl, Tail(limits))

\* lines 261-288; limits is the dict as the sequence of its items
apply_wip_limits(limits) ==
    /\ \E st \in {WipLoop([cards |-> cards, calls |-> <<>>], stage_lists, limits)} :
           /\ cards' = st.cards
           /\ calls' = st.calls
    /\ result' = [op |-> "apply_wip_limits", limits |-> limits, status |-> "returned"]
    /\ UNCHANGED <<lists, priority_lists, stage_lists>>

(***************************************************************************)
(* KanbanAutomation.move_card_to_stage                                     *)
(***************************************************************************)
StageInputs == Range(workflow_stages) \cup {"Archive"}

CommentInputs == {None, "", "started"}

NextMove ==
    \/ \E failAt \in 0..Len(workflow_stages) :
          /\ Len(lists) + Len(workflow_stages) <= MaxMoveLists
          /\ setup_kanban_board(failAt)
    \/ \E l \in 1..Len(lists) :
          /\ Len(cards) < MaxMoveCards
          /\ RemoteAddCard(NewCard(lists[l].id, TaskTitle, <<>>, <<>>))
    \/ \E c \in 1..Len(cards), stage \in StageInputs, comment \in CommentInputs :
          /\ CommentGiven(comment) => cards[c].comments < MaxComments
          /\ move_card_to_stage(c, stage, comment)

SpecMove == Init /\ [][NextMove]_vars

(***************************************************************************)
(* KanbanAutomation.apply_wip_limits                                       *)
(***************************************************************************)
WipStages == {"In Progress", "Review", "Nowhere"}

\* the lists other users add cards to
WipCardLists == {"Backlog", "In Progress", "Review"}

\* the limits dicts: up to two entries, of distinct stages
LimitInputs ==
    {<<>>}
    \cup {<<<<s, n>>>> : s \in WipStages, n \in 0..MaxLimit}
    \cup {l \in {<<<<s1, n1>>, <<s2, n2>>>> :
                      s1 \in WipStages, s2 \in WipStages,
                      n1 \in 0..MaxLimit, n2 \in 0..MaxLimit} : l[1][1] # l[2][1]}

NextWip ==
    \/ \E failAt \in 0..Len(workflow_stages) :
          /\ Len(lists) + Len(workflow_stages) <= MaxWipLists
          /\ setup_kanban_board(failAt)
    \/ \E l \in 1..Len(lists) :
          /\ Len(cards) < MaxWipCards
          /\ lists[l].name \in WipCardLists
          /\ RemoteAddCard(NewCard(lists[l].id, TaskTitle, <<>>, <<>>))
    \/ \E limits \in LimitInputs :
          /\ Len(cards) + Len(limits) <= MaxWipCards
          /\ apply_wip_limits(limits)

SpecWip == Init /\ [][NextWip]_vars

(***************************************************************************)
(* Properties of TaskManager                                               *)
(***************************************************************************)
\* what the claims call the inferred priority: the name of the first label,
\* in label order, that is a priority value
NamesPriority(label) == "name" \in DOMAIN label /\ label.name \in {"low", "medium", "high", "critical"}

FirstPriorityIs(labels, p) ==
    \E i \in 1..Len(labels) :
        /\ NamesPriority(labels[i])
        /\ labels[i].name = p
        /\ \A j \in 1..(i - 1) : ~NamesPriority(labels[j])

OnlyGetCard(cl, c) == cl = <<[tool |-> "get_card", cardId |-> c]>>

\* C1: escalate_task on a card whose first priority label is critical returns
\* normally, issues get_card and nothing else, and leaves the board's lists
\* and cards (their list, labels and comments) as they were.
C1_CriticalIsNoOp ==
    [][(/\ result'.op = "escalate_task"
        /\ FirstPriorityIs(cards[result'.card_id].labels, "critical"))
       => (/\ result'.status = "returned"
           /\ OnlyGetCard(calls', result'.card_id)
           /\ cards' = cards
           /\ lists' = lists)]_vars

C1_Witness ==
    /\ result.op = "escalate_task"
    /\ result.status = "returned"
    /\ OnlyGetCard(calls, result.card_id)
    /\ FirstPriorityIs(cards[result.card_id].labels, "critical")
    /\ Len(cards[result.card_id].labels) = 3

\* C10: escalate_task on a card none of whose labels names a priority value
\* raises the error of priority_order.index (a ValueError) after get_card,
\* before any remote mutation: the board is unchanged.
C10_NoPriorityRaises ==
    [][(/\ result'.op = "escalate_task"
        /\ \A i \in 1..Len(cards[result'.card_id].labels) :
              ~NamesPriority(cards[result'.card_id].labels[i]))
       => (/\ result'.status = "ValueError"
           /\ OnlyGetCard(calls', result'.card_id)
           /\ cards' = cards
           /\ lists' = lists)]_vars

C10_Witness ==
    /\ result.op = "escalate_task"
    /\ result.status = "ValueError"
    /\ cards[result.card_id].labels = <<[name |-> "bug"]>>
    /\ DOMAIN priority_lists = PriorityValues

\* the offsets the claim states
DefaultDueDays(p) ==
    CASE p = "critical" -> 1 [] p = "high" -> 3 [] p = "medium" -> 7 [] p = "low" -> 14

\* C7: the due date create_task sends in add_card_to_list is now plus
\* 1/3/7/14 days for critical/high/medium/low when the task has none, and the
\* task's own due date otherwise.
C7_DueDateDefault ==
    (result.op = "create_task" /\ result.status = "returned")
    => /\ calls # <<>>
       /\ calls[1].tool = "add_card_to_list"
       /\ calls[1].dueDate.t =
             (IF result.task.due_date = <<>>
              THEN result.now + DefaultDueDays(result.task.priority)
              ELSE result.task.due_date[1])
       /\ cards[Len(cards)].due = <<calls[1].dueDate>>

C7_Witness ==
    /\ result.op = "create_task"
    /\ result.status = "returned"
    /\ result.task.due_date = <<>>
    /\ result.task.priority = "high"
    /\ result.now = 1
    /\ calls[1].dueDate.t = 4

\* the add_list_to_board calls among cl, as the sequence of their names
AddedListNames(cl) ==
    LET IsAdd(c) == c.tool = "add_list_to_board"
        adds == SelectSeq(cl, IsAdd)
    IN  [i \in 1..Len(adds) |-> adds[i].name]

HasListNamed(ls, name) == \E i \in 1..Len(ls) : ls[i].name = name

\* C8: one run of initialize_priority_lists calls add_list_to_board once for
\* each priority whose list name the board lacks and for no other; afterwards
\* every priority is mapped, to the first list of its name where the board had
\* one and to the list just created otherwise; a run right after a run adds
\* nothing and leaves the board's lists and the mapping unchanged.
C8_FindOrCreateIdempotent ==
    [][(result'.op = "initialize_priority_lists")
       => LET added == AddedListNames(calls')
              absent == {p \in PriorityValues : ~HasListNamed(lists, PriorityListName(p))}
          IN  /\ Len(added) = Cardinality(absent)
              /\ Range(added) = {PriorityListName(p) : p \in absent}
              /\ DOMAIN priority_lists' = PriorityValues
              /\ \A p \in PriorityValues \ absent :
                    \E i \in 1..Len(lists) :
                        /\ lists[i].name = PriorityListName(p)
                        /\ priority_lists'[p] = lists[i].id
                        /\ \A j \in 1..(i - 1) : lists[j].name # PriorityListName(p)
              /\ \A p \in absent :
                    \E i \in (Len(lists) + 1)..Len(lists') :
                        /\ lists'[i].name = PriorityListName(p)
                        /\ priority_lists'[p] = lists'[i].id
              /\ SubSeq(lists', 1, Len(lists)) = lists
              /\ Len(lists') = Len(lists) + Len(added)
              /\ (result.op = "initialize_priority_lists"
                  => /\ added = <<>>
                     /\ lists' = lists
                     /\ priority_lists' = priority_lists)]_vars

\* a second run has happened on a board with two lists named Priority: High
C8_Witness ==
    /\ result.op = "initialize_priority_lists"
    /\ calls = <<[tool |-> "get_lists"]>>
    /\ Cardinality({i \in 1..Len(lists) : lists[i].name = "Priority: High"}) = 2
    /\ priority_lists["high"] = Min({i \in 1..Len(lists) : lists[i].name = "Priority: High"})

\* the priority one step above p, for p below critical
NextPriorityUp(p) ==
    CASE p = "low" -> "medium" [] p = "medium" -> "high" [] p = "high" -> "critical"

\* the labels without the labels named p, in their order
RECURSIVE LabelsWithout(_, _)
LabelsWithout(labels, p) ==
    IF labels = <<>> THEN <<>>
    ELSE IF NamesPriority(labels[1]) /\ labels[1].name = p
         THEN LabelsWithout(Tail(labels), p)
         ELSE <<labels[1]>> \o LabelsWithout(Tail(labels), p)

\* the remote mutations among cl (all calls but the leading get_card), as the
\* sequence of their tools
MutationTools(cl) == [i \in 1..(Len(cl) - 1) |-> cl[i + 1].tool]

EscalationMutations == <<"move_card", "update_card_details", "add_comment">>

\* C11: escalate_task on a card whose inferred priority p is below critical,
\* with a list mapped for the priority q one step above p, issues after
\* get_card the mutations move_card (to the list mapped to q),
\* update_card_details (the labels without p, plus q) and add_comment in that
\* order.  When all succeed the card is in q's list, carries those labels and
\* has one more comment.  When the k-th fails the error propagates, exactly
\* the first k were issued, the card shows exactly the k-1 before it and
\* nothing is undone.  No other card and no list changes.
C11_EscalateNotAtomic ==
    [][(result'.op = "escalate_task")
       => \A p \in {"low", "medium", "high"} :
             (/\ FirstPriorityIs(cards[result'.card_id].labels, p)
              /\ NextPriorityUp(p) \in DOMAIN priority_lists)
             => \A kept \in {LabelsWithout(cards[result'.card_id].labels, p)} :
                   LET c == result'.card_id
                       old == cards[c]
                       new == cards'[c]
                       q == NextPriorityUp(p)
                       issued == Len(calls') - 1
                       applied == IF result'.status = "returned" THEN issued ELSE issued - 1
                   IN  /\ result'.status \in {"returned", "RemoteError"}
                       /\ calls'[1] = [tool |-> "get_card", cardId |-> c]
                       /\ issued \in 1..3
                       /\ result'.status = "returned" => issued = 3
                       /\ MutationTools(calls') = SubSeq(EscalationMutations, 1, issued)
                       /\ \A i \in 2..Len(calls') : calls'[i].cardId = c
                       /\ calls'[2].listId = priority_lists[q]
                       /\ issued >= 2 => calls'[3].labels = kept \o <<[str |-> q]>>
                       /\ new.idList = (IF applied >= 1 THEN priority_lists[q] ELSE old.idList)
                       /\ new.labels = (IF applied >= 2 THEN kept \o <<[name |-> q]>>
                                        ELSE old.labels)
                       /\ new.comments = (IF applied >= 3 THEN old.comments + 1
                                          ELSE old.comments)
                       /\ new.name = old.name /\ new.due = old.due
                       /\ Len(cards') = Len(cards)
                       /\ \A d \in 1..Len(cards) : d # c => cards'[d] = cards[d]
                       /\ lists' = lists
                       /\ priority_lists' = priority_lists]_vars

\* a failed update_card_details: the card is in the list of medium, still
\* carries its label low and has no audit comment
C11_Witness ==
    /\ result.op = "escalate_task"
    /\ result.status = "RemoteError"
    /\ Len(calls) = 3
    /\ calls[3].tool = "update_card_details"
    /\ calls[3].labels = <<[color |-> "red"], [str |-> "medium"]>>
    /\ "medium" \in DOMAIN priority_lists
    /\ cards[result.card_id].idList = priority_lists["medium"]
    /\ cards[result.card_id].labels = <<[color |-> "red"], [name |-> "low"]>>
    /\ cards[result.card_id].comments = 0

(***************************************************************************)
(* Properties of KanbanAutomation                                         *)
(***************************************************************************)
\* C9: move_card_to_stage with a stage that is no key of stage_lists raises a
\* ValueError and issues no remote call; with a known stage it issues
\* move_card to that stage's list and then add_comment exactly when the
\* comment is a non-empty string.
C9_UnknownStageRejected ==
    [][(result'.op = "move_card_to_stage")
       => LET c == result'.card_id
              stage == result'.stage
              move == [tool |-> "move_card", cardId |-> c, listId |-> stage_lists[stage]]
          IN  IF \A k \in DOMAIN stage_lists : k # stage
              THEN /\ result'.status = "ValueError"
                   /\ calls' = <<>>
                   /\ cards' = cards
              ELSE /\ result'.status = "returned"
                   /\ cards'[c].idList = stage_lists[stage]
                   /\ IF result'.comment = "started"
                      THEN /\ calls' = <<move, [tool |-> "add_comment", cardId |-> c]>>
                           /\ cards'[c].comments = cards[c].comments + 1
                      ELSE /\ calls' = <<move>>
                           /\ cards'[c].comments = cards[c].comments]_vars

\* a workflow stage that a failed setup_kanban_board never recorded is rejected
C9_Witness ==
    /\ result.op = "move_card_to_stage"
    /\ result.stage = "Done"
    /\ result.status = "ValueError"
    /\ calls = <<>>
    /\ DOMAIN stage_lists = {"Backlog", "To Do"}

CardsIn(cs, listId) == Cardinality({c \in 1..Len(cs) : cs[c].idList = listId})

WarningsInto(cl, listId) ==
    Cardinality({i \in 1..Len(cl) : cl[i].tool = "add_card_to_list" /\ cl[i].listId = listId})

\* C3: apply_wip_limits issues, for each entry whose stage is mapped, one
\* add_card_to_list into the stage's list when the list held more cards than
\* the limit and none when it held as many or fewer; an entry whose stage is
\* not mapped causes no remote call.
C3_WipStrictlyExceeds ==
    [][(result'.op = "apply_wip_limits")
       => LET limits == result'.limits
              mapped == {i \in 1..Len(limits) : limits[i][1] \in DOMAIN stage_lists}
              fired == {i \in mapped : CardsIn(cards, stage_lists[limits[i][1]]) > limits[i][2]}
          IN  /\ \A i \in mapped :
                    WarningsInto(calls', stage_lists[limits[i][1]]) =
                        (IF i \in fired THEN 1 ELSE 0)
              /\ \A k \in 1..Len(calls') :
                    \E i \in mapped : calls'[k].listId = stage_lists[limits[i][1]]
              /\ Len(calls') = Cardinality(mapped) + Cardinality(fired)
              /\ Len(cards') = Len(cards) + Cardinality(fired)]_vars

\* a run that found In Progress exactly at its limit of 1 (no warning) and
\* Review above its limit of 0 (one warning, now the list's second card)
C3_Witness ==
    /\ result.op = "apply_wip_limits"
    /\ result.limits = <<<<"In Progress", 1>>, <<"Review", 0>>>>
    /\ {"In Progress", "Review"} \subseteq DOMAIN stage_lists
    /\ CardsIn(cards, stage_lists["In Progress"]) = 1
    /\ CardsIn(cards, stage_lists["Review"]) = 2
    /\ WarningsInto(calls, stage_lists["In Progress"]) = 0
    /\ WarningsInto(calls, stage_lists["Review"]) = 1

\* the warning cards that a list holds
WarningCardsIn(cs, listId) ==
    Cardinality({c \in 1..Len(cs) : /\ cs[c].idList = listId
                                    /\ cs[c].name = <<"W", "I", "P">>
                                    /\ cs[c].labels = <<[name |-> "warning"],
                                                        [name |-> "wip-violation"]>>})

\* C12: apply_wip_limits only flags and is not idempotent.  No step removes a
\* card from the list a stage stays mapped to.  A run changes no existing
\* card, no list and no mapping; for each entry whose mapped list holds more
\* cards than the limit it adds one warning card to that very list, so the
\* list holds one card more and is still over the limit afterwards; and a run
\* right after a run with the same limits warns again on every list the run
\* before it warned on.
C12_WipNotIdempotent ==
    [][/\ \/ cards' = cards
          \/ \A s \in DOMAIN stage_lists :
                (s \in DOMAIN stage_lists' /\ stage_lists'[s] = stage_lists[s])
                => CardsIn(cards', stage_lists[s]) >= CardsIn(cards, stage_lists[s])
       /\ (result'.op = "apply_wip_limits")
          => /\ SubSeq(cards', 1, Len(cards)) = cards
             /\ lists' = lists
             /\ stage_lists' = stage_lists
             /\ \A i \in 1..Len(result'.limits) :
                   (result'.limits[i][1] \in DOMAIN stage_lists)
                   => \A l \in {stage_lists[result'.limits[i][1]]} :
                      \A n \in {CardsIn(cards, l)} :
                         /\ (n > result'.limits[i][2])
                            => /\ WarningsInto(calls', l) = 1
                               /\ CardsIn(cards', l) = n + 1
                               /\ WarningCardsIn(cards', l) = WarningCardsIn(cards, l) + 1
                               /\ CardsIn(cards', l) > result'.limits[i][2]
                         /\ (/\ result.op = "apply_wip_limits"
                             /\ result.limits = result'.limits
                             /\ WarningsInto(calls, l) = 1)
                            => WarningsInto(calls', l) = 1]_vars

\* two runs with the limit 0 on Review, which held one card: each run has
\* added a warning card to Review, which now holds three cards
C12_Witness ==
    /\ result.op = "apply_wip_limits"
    /\ result.limits = <<<<"Review", 0>>>>
    /\ "Review" \in DOMAIN stage_lists
    /\ CardsIn(cards, stage_lists["Review"]) = 3
    /\ WarningCardsIn(cards, stage_lists["Review"]) = 2
    /\ WarningsInto(calls, stage_lists["Review"]) = 1

(***************************************************************************)
(* ProjectAnalytics                                                        *)
(***************************************************************************)
Digits == {"0", "1", "2", "3", "4", "5", "6", "7", "8", "9"}

DigitValue(ch) ==
    CASE ch = "0" -> 0 [] ch = "1" -> 1 [] ch = "2" -> 2 [] ch = "3" -> 3 [] ch = "4" -> 4
      [] ch = "5" -> 5 [] ch = "6" -> 6 [] ch = "7" -> 7 [] ch = "8" -> 8 [] ch = "9" -> 9

\* int(s) of a string of decimal digits
RECURSIVE IntOf(_)
IntOf(s) ==
    IF s = <<>> THEN 0
    ELSE IntOf(SubSeq(s, 1, Len(s) - 1)) * 10 + DigitValue(s[Len(s)])

\* the length of the run of digits of title that starts at position i
RECURSIVE DigitRun(_, _)
DigitRun(title, i) ==
    IF i <= Len(title) /\ title[i] \in Digits THEN 1 + DigitRun(title, i + 1) ELSE 0

\* re.match(r'\[(\d+)\]', title) tried at position start: <<>> when there is no
\* match, <<group 1>> otherwise
MatchAt(title, start) ==
    IF start > Len(title) \/ title[start] # "[" THEN <<>>
    ELSE LET n == DigitRun(title, start + 1)
         IN  IF n >= 1 /\ start + 1 + n <= Len(title) /\ title[start + 1 + n] = "]"
             THEN <<SubSeq(title, start + 1, start + n)>>
             ELSE <<>>

\* re.search in place of re.match: the first position where the pattern matches
TitlePointsSearch(title) ==
    LET hits == {i \in 1..Len(title) : MatchAt(title, i) # <<>>}
    IN  IF hits = {} THEN 0 ELSE IntOf(MatchAt(title, Min(hits))[1])

\* lines 432-434 and 483-485: the points a title carries, 0 without a match
TitlePoints(title) ==
    LET points_match == MatchAt(title, 1)
    IN  IF points_match = <<>> THEN 0 ELSE IntOf(points_match[1])

\* lines 429-439: the points of the cards of one list, summed in order
RECURSIVE ListPoints(_, _)
ListPoints(cs, ids) ==
    IF ids = <<>> THEN 0
    ELSE TitlePoints(cs[ids[1]].name) + ListPoints(cs, Tail(ids))

\* line 438
CompletedListNames == {"Done", "Completed", "Deployed"}

\* lines 423-441: the loop over the lists
RECURSIVE BurndownLoop(_, _, _)
BurndownLoop(data, cs, ls) ==
    IF ls = <<>> THEN data
    ELSE LET lst == ls[1]
             list_points == ListPoints(cs, CardsByListId(cs, lst.id))
         IN  BurndownLoop(
                 [total_points |-> data.total_points + list_points,
                  completed_points |-> data.completed_points +
                      (IF lst.name \in CompletedListNames THEN list_points ELSE 0),
                  by_list |-> DictSet(data.by_list, lst.name, list_points),
                  calls |-> Append(data.calls,
                                   [tool |-> "get_cards_by_list_id", listId |-> lst.id])],
                 cs, Tail(ls))

\* lines 411-447
generate_burndown_data ==
    /\ LET data == BurndownLoop([total_points |-> 0, completed_points |-> 0,
                                 by_list |-> EmptyDict,
                                 calls |-> <<[tool |-> "get_lists"]>>], cards, GetLists)
       IN  /\ calls' = data.calls
           /\ result' = [op |-> "generate_burndown_data", status |-> "returned",
                         total_points |-> data.total_points,
                         completed_points |-> data.completed_points,
                         remaining_points |-> data.total_points - data.completed_points,
                         by_list |-> data.by_list]
    /\ UNCHANGED <<lists, cards, priority_lists, stage_lists>>

(***************************************************************************)
(* ProjectAnalytics.generate_burndown_data on boards whose lists appear in *)
(* a fixed order and whose cards carry any of the sample titles.           *)
(***************************************************************************)
BurndownListNames == <<"To Do", "Done", "done", "Deployed", "Completed">>

TitleSamples ==
    { <<"[", "5", "]", " ", "a">>,     \* points, then text
      <<"[", "1", "3", "]">>,          \* two digits
      <<"[", "0", "7", "]">>,          \* a leading zero
      <<"a", "[", "5", "]">>,          \* the bracket is not at the start
      <<"[", "a", "]">>,               \* not digits
      <<"[", "]">>,                    \* no digit
      <<"[", "5">>,                    \* no closing bracket
      <<"n", "o">> }                   \* no bracket

NextBurndown ==
    \/ /\ Len(lists) < Len(BurndownListNames)
       /\ RemoteAddList(BurndownListNames[Len(lists) + 1])
    \/ \E l \in 1..Len(lists), title \in TitleSamples :
          /\ Len(cards) < MaxBurndownCards
          /\ RemoteAddCard(NewCard(lists[l].id, title, <<>>, <<>>))
    \/ generate_burndown_data

SpecBurndown == Init /\ [][NextBurndown]_vars

(***************************************************************************)
(* ProjectAnalytics.team_velocity_report                                   *)
(***************************************************************************)
\* lines 476-477 on the label names of the model: <<>> unless 'sprint-' is in
\* name.lower(), else <<name.split('-')[1]>>
SprintKey(label) ==
    IF "name" \notin DOMAIN label THEN <<>>
    ELSE CASE label.name = "sprint-1" -> <<"1">>
           [] label.name = "sprint-2" -> <<"2">>
           [] label.name = "sprint-3" -> <<"3">>
           [] label.name = "Sprint-3" -> <<"3">>
           [] label.name = "pre-sprint-1" -> <<"sprint">>
           [] OTHER -> <<>>

\* sprint_points[key] += points, the key entering the dict (at its end) with 0
\* when it is new; the dict is the sequence of its items
AddSprintPoints(sprint_points, key, points) ==
    IF \E i \in 1..Len(sprint_points) : sprint_points[i].key = key
    THEN [i \in 1..Len(sprint_points) |->
             IF sprint_points[i].key = key
             THEN [key |-> key, points |-> sprint_points[i].points + points]
             ELSE sprint_points[i]]
    ELSE Append(sprint_points, [key |-> key, points |-> points])

\* lines 475-485: the labels of one card
RECURSIVE SprintLabelLoop(_, _, _)
SprintLabelLoop(sprint_points, card, j) ==
    IF j > Len(card.labels) THEN sprint_points
    ELSE LET key == SprintKey(card.labels[j])
         IN  SprintLabelLoop(
                 IF key = <<>> THEN sprint_points
                 ELSE AddSprintPoints(sprint_points, key[1], TitlePoints(card.name)),
                 card, j + 1)

\* lines 473-485: the cards of the done list
RECURSIVE SprintCardLoop(_, _, _)
SprintCardLoop(sprint_points, cs, ids) ==
    IF ids = <<>> THEN sprint_points
    ELSE SprintCardLoop(SprintLabelLoop(sprint_points, cs[ids[1]], 1), cs, Tail(ids))

Compare(last, previous) ==
    IF last > previous THEN "increasing"
    ELSE IF last < previous THEN "decreasing"
    ELSE "stable"

\* the trend taken from the first two velocities
TrendOfFirstTwo(velocities) ==
    IF Len(velocities) >= 2 THEN Compare(velocities[2], velocities[1]) ELSE "stable"

\* lines 493-497: velocities[-1] against velocities[-2]
TrendOf(velocities) ==
    IF Len(velocities) >= 2
    THEN Compare(velocities[Len(velocities)], velocities[Len(velocities) - 1])
    ELSE "stable"

\* lines 461-464: the ids of the lists named Done or Completed, in board order
DoneListIds(ls) ==
    LET IsDone(l) == l.name \in {"Done", "Completed"}
        found == SelectSeq(ls, IsDone)
    IN  [i \in 1..Len(found) |-> found[i].id]

\* lines 449-499.  A quotient a / b is the pair <<a, b>>.
team_velocity_report ==
    /\ LET done == DoneListIds(GetLists)
           sprint_points ==
               IF done = <<>> THEN <<>>
               ELSE SprintCardLoop(<<>>, cards, CardsByListId(cards, done[1]))
           velocities == [i \in 1..Len(sprint_points) |-> sprint_points[i].points]
       IN  /\ calls' = <<[tool |-> "get_lists"]>> \o
                       (IF done = <<>> THEN <<>>
                        ELSE <<[tool |-> "get_cards_by_list_id", listId |-> done[1]]>>)
           /\ result' = [op |-> "team_velocity_report", status |-> "returned",
                         sprints |-> <<>>,
                         average_velocity |->
                             IF velocities = <<>> THEN <<0, 1>>
                             ELSE <<SumSeq(velocities), Len(velocities)>>,
                         trend |-> TrendOf(velocities)]
    /\ UNCHANGED <<lists, cards, priority_lists, stage_lists>>

VelocityListNames == <<"To Do", "Done", "Completed">>

\* the cards other users create: [list, name, labels]
VelocityCardSamples ==
    [list : {"Done"},
     name : {<<"[", "1", "0", "]">>, <<"[", "1", "5", "]">>},
     labels : {<<[name |-> "sprint-1"]>>, <<[name |-> "sprint-2"]>>}]
    \cup { [list |-> "Done", name |-> <<"[", "1", "2", "]">>,
            labels |-> <<[name |-> "sprint-3"]>>],
           [list |-> "Done", name |-> <<"n", "o">>, labels |-> <<[name |-> "sprint-1"]>>],
           [list |-> "Done", name |-> <<"[", "1", "2", "]">>,
            labels |-> <<[name |-> "Sprint-3"], [name |-> "bug"], [name |-> "sprint-1"]>>],
           [list |-> "Done", name |-> <<"[", "1", "0", "]">>,
            labels |-> <<[color |-> "red"], [name |-> "pre-sprint-1"]>>],
           [list |-> "Completed", name |-> <<"[", "1", "5", "]">>,
            labels |-> <<[name |-> "sprint-2"]>>] }

NextVelocity ==
    \/ /\ Len(lists) < Len(VelocityListNames)
       /\ RemoteAddList(VelocityListNames[Len(lists) + 1])
    \/ \E l \in 1..Len(lists), card \in VelocityCardSamples :
          /\ Len(cards) < MaxVelocityCards
          /\ lists[l].name = card.list
          /\ RemoteAddCard(NewCard(lists[l].id, card.name, card.labels, <<>>))
    \/ team_velocity_report

SpecVelocity == Init /\ [][NextVelocity]_vars

(***************************************************************************)
(* ProjectAnalytics.generate_health_metrics                                *)
(***************************************************************************)
\* datetime.fromisoformat(text.replace('Z', '+00:00')): a text with 'Z' or an
\* offset parses to an aware datetime, one without to a naive datetime
FromIsoFormat(text) == [t |-> text.t, aware |-> text.aware]

\* line 540
IsBlocked(card) ==
    \E j \in 1..Len(card.labels) :
        "name" \in DOMAIN card.labels[j] /\ card.labels[j].name = "blocked"

\* lines 527-558 for one card; now is datetime.now(), a naive datetime, and
\* comparing or subtracting a naive and an aware datetime raises TypeError
HealthCardStep(m, cs, c, now) ==
    LET card == cs[c]
        due_error == card.due # <<>> /\ FromIsoFormat(card.due[1]).aware
        overdue == /\ card.due # <<>>
                   /\ FromIsoFormat(card.due[1]).t < now
                   /\ ~card.dueComplete
        blocked == IsBlocked(card)
        stale_error == /\ card.dateLastActivity # <<>>
                       /\ FromIsoFormat(card.dateLastActivity[1]).aware
        stale == /\ card.dateLastActivity # <<>>
                 /\ now - FromIsoFormat(card.dateLastActivity[1]).t > 14
    IN  IF m.status # "running" THEN m
        ELSE IF due_error \/ stale_error THEN [m EXCEPT !.status = "TypeError"]
        ELSE [m EXCEPT
                 !.overdue_cards = IF overdue THEN Append(@, c) ELSE @,
                 !.blocked_cards = IF blocked THEN Append(@, c) ELSE @,
                 !.stale_cards = IF stale THEN Append(@, c) ELSE @,
                 !.health_score = @ - (IF overdue THEN 5 ELSE 0)
                                    - (IF blocked THEN 3 ELSE 0)
                                    - (IF stale THEN 1 ELSE 0)]

RECURSIVE HealthCardLoop(_, _, _, _)
HealthCardLoop(m, cs, ids, now) ==
    IF ids = <<>> THEN m
    ELSE HealthCardLoop(HealthCardStep(m, cs, ids[1], now), cs, Tail(ids), now)

\* lines 516-558: the loop over the lists
RECURSIVE HealthListLoop(_, _, _, _)
HealthListLoop(m, cs, ls, now) ==
    IF ls = <<>> \/ m.status # "running" THEN m
    ELSE LET lst == ls[1]
             ids == CardsByListId(cs, lst.id)
             counted == [m EXCEPT
                            !.calls = Append(@, [tool |-> "get_cards_by_list_id",
                                                 listId |-> lst.id]),
                            !.lists = DictSet(@, lst.name, Len(ids)),
                            !.total_cards = @ + Len(ids)]
         IN  HealthListLoop(HealthCardLoop(counted, cs, ids, now), cs, Tail(ls), now)

\* line 568
Floor0(score) == IF score < 0 THEN 0 ELSE score

\* lines 501-570.  A percentage count / total * 100 is the pair <<count * 100, total>>.
generate_health_metrics(now) ==
    /\ LET m == HealthListLoop(
                    [status |-> "running", calls |-> <<[tool |-> "get_lists"]>>,
                     lists |-> EmptyDict, overdue_cards |-> <<>>, blocked_cards |-> <<>>,
                     stale_cards |-> <<>>, total_cards |-> 0, health_score |-> 100],
                    cards, GetLists, now)
       IN  /\ calls' = m.calls
           /\ result' =
                 IF m.status = "TypeError"
                 THEN [op |-> "generate_health_metrics", now |-> now, status |-> "TypeError"]
                 ELSE [op |-> "generate_health_metrics", now |-> now, status |-> "returned",
                       lists |-> [n \in DOMAIN m.lists |->
                                     [count |-> m.lists[n],
                                      percentage |-> IF m.total_cards > 0
                                                     THEN <<m.lists[n] * 100, m.total_cards>>
                                                     ELSE <<0, 1>>]],
                       overdue_cards |-> m.overdue_cards,
                       blocked_cards |-> m.blocked_cards,
                       stale_cards |-> m.stale_cards,
                       total_cards |-> m.total_cards,
                       health_score |-> Floor0(m.health_score)]
    /\ UNCHANGED <<lists, cards, priority_lists, stage_lists>>

HealthListNames == <<"To Do", "Done">>

NowInputs == {20, 21}

Naive(t) == <<[t |-> t, aware |-> FALSE]>>

\* a timestamp as the service writes it, with 'Z'
Zulu(t) == <<[t |-> t, aware |-> TRUE]>>

\* the cards other users create: [due, dueComplete, dateLastActivity, labels]
HealthCardSamples ==
    { [due |-> Naive(10), dueComplete |-> FALSE, dateLastActivity |-> Naive(0),
       labels |-> <<[name |-> "blocked"]>>],                     \* all three
      [due |-> Naive(10), dueComplete |-> FALSE, dateLastActivity |-> Naive(19),
       labels |-> <<>>],                                         \* overdue
      [due |-> Naive(10), dueComplete |-> TRUE, dateLastActivity |-> <<>>,
       labels |-> <<[name |-> "bug"], [name |-> "blocked"]>>],   \* blocked
      [due |-> Naive(30), dueComplete |-> FALSE, dateLastActivity |-> Naive(6),
       labels |-> <<[color |-> "red"]>>],                        \* stale on day 21
      [due |-> <<>>, dueComplete |-> FALSE, dateLastActivity |-> <<>>,
       labels |-> <<>>],                                         \* none
      [due |-> Zulu(10), dueComplete |-> FALSE, dateLastActivity |-> <<>>,
       labels |-> <<>>],
      [due |-> <<>>, dueComplete |-> FALSE, dateLastActivity |-> Zulu(0),
       labels |-> <<>>] }

NextHealth ==
    \/ /\ Len(lists) < Len(HealthListNames)
       /\ RemoteAddList(HealthListNames[Len(lists) + 1])
    \/ \E l \in 1..Len(lists), card \in HealthCardSamples :
          /\ Len(cards) < MaxHealthCards
          /\ RemoteAddCard([idList |-> lists[l].id, name |-> TaskTitle,
                            labels |-> card.labels, due |-> card.due,
                            dueComplete |-> card.dueComplete,
                            dateLastActivity |-> card.dateLastActivity, comments |-> 0])
    \/ \E now \in NowInputs : generate_health_metrics(now)

SpecHealth == Init /\ [][NextHealth]_vars

(***************************************************************************)
(* Properties of ProjectAnalytics                                          *)
(***************************************************************************)
\* the claim's reading of a title: "[", one or more digits, "]" at the very
\* start give the number the digits spell; any other title gives 0
Power10(n) == CASE n = 0 -> 1 [] n = 1 -> 10 [] n = 2 -> 100 [] n = 3 -> 1000

BracketedPoints(title) ==
    LET closes == {k \in 3..Len(title) :
                      /\ title[1] = "["
                      /\ title[k] = "]"
                      /\ \A j \in 2..(k - 1) : title[j] \in Digits}
    IN  IF closes = {} THEN 0
        ELSE LET k == CHOOSE x \in closes : TRUE
                 Place(j) == DigitValue(title[j]) * Power10(k - 1 - j)
                 sum[j \in 1..(k - 1)] == IF j = 1 THEN 0 ELSE sum[j - 1] + Place(j)
             IN  sum[k - 1]

\* the sum of the bracketed points over the cards whose id is in S
PointsOver(S) ==
    LET sum[c \in 0..Len(cards)] ==
            IF c = 0 THEN 0
            ELSE sum[c - 1] + (IF c \in S THEN BracketedPoints(cards[c].name) ELSE 0)
    IN  sum[Len(cards)]

ListNameOf(listId) == (CHOOSE i \in 1..Len(lists) : lists[i].id = listId)

\* C6: generate_burndown_data returns total_points, the sum over all cards of
\* the bracketed number at the start of the title (0 for any other title),
\* completed_points, that sum over the cards of the lists named Done,
\* Completed or Deployed, and remaining_points, their difference; so
\* 0 <= completed_points <= total_points.
C6_BurndownPoints ==
    (result.op = "generate_burndown_data")
    => LET completed == {c \in 1..Len(cards) :
                            lists[ListNameOf(cards[c].idList)].name
                                \in {"Done", "Completed", "Deployed"}}
       IN  /\ result.status = "returned"
           /\ result.total_points = PointsOver(1..Len(cards))
           /\ result.completed_points = PointsOver(completed)
           /\ result.remaining_points = result.total_points - result.completed_points
           /\ 0 <= result.completed_points
           /\ result.completed_points <= result.total_points

\* 13 completed points of 18: a two-digit title in Deployed and a one-digit
\* title, followed by text, in To Do
C6_Witness ==
    /\ result.op = "generate_burndown_data"
    /\ result.total_points = 18
    /\ result.completed_points = 13
    /\ result.remaining_points = 5
    /\ \E c \in 1..Len(cards) :
          /\ cards[c].name = <<"[", "1", "3", "]">>
          /\ lists[ListNameOf(cards[c].idList)].name = "Deployed"

\* the done list as the claims have it: the first list named Done or Completed
IsFirstDoneList(i) ==
    /\ lists[i].name \in {"Done", "Completed"}
    /\ \A j \in 1..(i - 1) : lists[j].name \notin {"Done", "Completed"}

\* the sprint labels of the done list's cards, as <<card, label index>>, in the
\* order the service returns the cards
SprintMarks ==
    {m \in (1..Len(cards)) \X (1..3) :
        /\ \E i \in 1..Len(lists) : IsFirstDoneList(i) /\ cards[m[1]].idList = lists[i].id
        /\ m[2] <= Len(cards[m[1]].labels)
        /\ SprintKey(cards[m[1]].labels[m[2]]) # <<>>}

MarkKey(m) == SprintKey(cards[m[1]].labels[m[2]])[1]

Earlier(m, n) == m[1] < n[1] \/ (m[1] = n[1] /\ m[2] < n[2])

SprintKeys == {MarkKey(m) : m \in SprintMarks}

FirstMark(k) ==
    CHOOSE m \in SprintMarks :
        MarkKey(m) = k /\ \A n \in SprintMarks : MarkKey(n) = k => ~Earlier(n, m)

\* the sprint's point total: each of its marks brings the card's points
RECURSIVE MarkPoints(_)
MarkPoints(S) ==
    IF S = {} THEN 0
    ELSE LET m == CHOOSE x \in S : TRUE
         IN  BracketedPoints(cards[m[1]].name) + MarkPoints(S \ {m})

SprintTotal(k) == MarkPoints({m \in SprintMarks : MarkKey(m) = k})

\* the sprint whose first mark comes i-th: v_i is its total
SprintAt(i) ==
    CHOOSE k \in SprintKeys :
        Cardinality({h \in SprintKeys : Earlier(FirstMark(h), FirstMark(k))}) = i - 1

RECURSIVE TotalsSum(_)
TotalsSum(K) ==
    IF K = {} THEN 0
    ELSE LET k == CHOOSE x \in K : TRUE IN SprintTotal(k) + TotalsSum(K \ {k})

\* C4: with the per-sprint totals v1..vn in the order the sprints are first
\* met, the trend is increasing, decreasing or stable as vn >, < or = v(n-1)
\* (a function of the final two totals alone), stable with fewer than two
\* sprints or no Done/Completed list, and average_velocity is the sum of the
\* totals over n.
C4_TrendFromLastTwo ==
    (result.op = "team_velocity_report")
    => LET n == Cardinality(SprintKeys)
       IN  /\ result.status = "returned"
           /\ n = 0 => result.trend = "stable" /\ result.average_velocity = <<0, 1>>
           /\ n = 1 => result.trend = "stable"
           /\ n >= 1 => result.average_velocity = <<TotalsSum(SprintKeys), n>>
           /\ n >= 2 =>
                 LET vn == SprintTotal(SprintAt(n))
                     vp == SprintTotal(SprintAt(n - 1))
                 IN  /\ vn > vp => result.trend = "increasing"
                     /\ vn < vp => result.trend = "decreasing"
                     /\ vn = vp => result.trend = "stable"

\* the spec's example: sprints 1, 2, 3 with 10, 15 and 12 points
C4_Witness ==
    /\ result.op = "team_velocity_report"
    /\ result.trend = "decreasing"
    /\ result.average_velocity = <<37, 3>>
    /\ Cardinality(SprintKeys) = 3
    /\ SprintTotal(SprintAt(1)) = 10
    /\ SprintTotal(SprintAt(2)) = 15
    /\ SprintTotal(SprintAt(3)) = 12

\* the number a sprint key spells (0 for a key that is no number)
SprintNumber(k) ==
    CASE k = "1" -> 1 [] k = "2" -> 2 [] k = "3" -> 3 [] OTHER -> 0

\* the sprint of the i-th highest sprint number
SprintRanked(i) ==
    CHOOSE k \in SprintKeys :
        Cardinality({h \in SprintKeys : SprintNumber(h) > SprintNumber(k)}) = i - 1

\* C5: the trend compares the total of the sprint with the highest sprint
\* number against the total of the sprint with the next-highest number, in
\* whatever order the service returns the done list's cards.
C5_TrendOfMostRecent ==
    (/\ result.op = "team_velocity_report"
     /\ Cardinality(SprintKeys) >= 2
     /\ \A k \in SprintKeys : SprintNumber(k) > 0)
    => LET latest == SprintTotal(SprintRanked(1))
           before == SprintTotal(SprintRanked(2))
       IN  /\ latest > before => result.trend = "increasing"
           /\ latest < before => result.trend = "decreasing"
           /\ latest = before => result.trend = "stable"

HealthPenalty(r) ==
    100 - 5 * Len(r.overdue_cards) - 3 * Len(r.blocked_cards) - Len(r.stale_cards)

\* C2: generate_health_metrics returns, for every board, health_score =
\* max(0, 100 - 5*O - 3*B - S) for the lengths O, B, S of the returned
\* overdue_cards, blocked_cards and stale_cards, a score within 0..100.
C2_HealthScore ==
    (result.op = "generate_health_metrics")
    => /\ result.status = "returned"
       /\ result.health_score =
             (IF HealthPenalty(result) < 0 THEN 0 ELSE HealthPenalty(result))
       /\ result.health_score \in 0..100

\* what holds of the code: the score is as C2 says whenever the method returns
HealthScoreWhenReturned ==
    (result.op = "generate_health_metrics" /\ result.status = "returned")
    => /\ result.health_score =
             (IF HealthPenalty(result) < 0 THEN 0 ELSE HealthPenalty(result))
       /\ result.health_score \in 0..100

====
